---- MODULE Spec2Model ----
(***************************************************************************)
(* Model of the YouTube slide extractor: SlideExtractor.extract_slides,    *)
(* _is_different_slide, the export of the slides and batch_process         *)
(* (src/slide_extractor.py), and the status channel and the forms of the   *)
(* GUI (src/main.py).                                                      *)
(*                                                                         *)
(* The specifications of the module:                                       *)
(*   Spec         one call of batch_process and its job threads;           *)
(*   SpecGui      the same with the GUI's callback and queue monitor;      *)
(*   SpecExtract  two runs of extract_slides over the same video file,     *)
(*                one sample point of the frame loop per step;             *)
(*   SpecExport   one run of extract_slides with the files of its output   *)
(*                directory, the export of the slides and the exported     *)
(*                slideshow;                                               *)
(*   SpecCompare  one call of _is_different_slide on a pair of frames;     *)
(*   SpecEntry    the entry points and their checks of the configuration.  *)
(* Real numbers are scaled integers: thresholds, structural-similarity     *)
(* scores and histogram correlations are in hundredths, the frame rate is  *)
(* in hundredths of a frame per second.                                    *)
(***************************************************************************)
EXTENDS Integers, Sequences, FiniteSets, TLC

VARIABLES
    \* ---- batch_process (src/slide_extractor.py:728-839) ----
    urls,            \* the urls argument: a sequence of URLs
    parallel,        \* the parallel argument
    max_workers,     \* the max_workers argument
    pc,              \* position of the thread running batch_process
    i,               \* index of the url the for loop is at (1-based)
    active_threads,  \* the active_threads list: job indices, in start order
    jn,              \* position of the final join loop in active_threads
    tpc,             \* tpc[j]: position of job j's pipeline (process_url / loop body)
    job_dir,         \* job_dir[j]: video_output_dir computed for job j
    slides_len,      \* slides_len[j]: len(slides) returned by job j's extract_slides
    outcome,         \* outcome[j]: which exit job j's extract_slides took
    ext_queue,       \* ext_queue[j]: job j's SlideExtractor.status_queue
    results,         \* the results dict: URL -> [slide_count, output_dir]
    dirs,            \* directories created so far by os.makedirs
    \* ---- GUI status channel (src/main.py:25, 785-786, 830-844) ----
    status_callback, \* the status_callback argument: "record" or the GUI's "gui"
    delivered,       \* history: the messages handed to status_callback
    status_queue,    \* SlideExtractorApp.status_queue
    batch_log,       \* the messages monitor_queue has written to the batch log
    emitted,         \* history: the messages put on status_queue, in order
    \* ---- extract_slides runs (src/slide_extractor.py:126-210) ----
    source,          \* the video source both runs read
    lib,             \* answers of the image libraries (ssim, compareHist, OCR)
    interval,        \* self.interval
    cfg,             \* cfg[r]: similarity_threshold and extract_text of run r
    rpc,             \* rpc[r]: position of run r inside extract_slides
    frame_num,       \* frame_num[r]: the sample point the for loop is at
    prev_frame,      \* prev_frame[r]: the frame of the last accepted slide
    slide_count,     \* slide_count[r]
    extracted_slides,\* extracted_slides[r]: the slides accepted so far, in order
    extracted_text,  \* extracted_text[r]: slide numbers that got recognized text
    compared,        \* history: sample points run r passed to _is_different_slide
    visited,         \* history: sample points run r has read so far, in order
    files,           \* the files and folders in self.output_dir
    writable,        \* whether the export artifact can be written
    exported,        \* exported[r]: what the export step of run r did
    video_url,       \* video_url[r]: self.video_url of the extractor of run r
    temp_holds,      \* history: the url whose download wrote temp_video.mp4, if it exists
    sampled_from,    \* history: sampled_from[r], the urls whose video run r read frames from
    \* ---- one call of _is_different_slide (src/slide_extractor.py:212-262) ----
    cmp_frames,      \* the arguments frame1, frame2 of the call
    cpc,             \* position of the call: "idle", "called" or "returned"
    verdict,         \* the value the call returned
    \* ---- the slide image files of one job (src/slide_extractor.py:313-352) ----
    save_calls,      \* the (count, timestamp) arguments of the calls of _save_slide, in order
    saved,           \* the filenames the calls made so far have returned
    listing,         \* slide_filenames as the sorted directory listing of lines 349-352, once taken
    fpc,             \* "idle", "saving" or "listed"
    \* ---- the exported slideshow in a browser (src/slide_extractor.py:617-710) ----
    page,            \* "closed", "loaded" (markup parsed) or "open" (script has run)
    active,          \* the numbers of the panels whose class list has 'active'
    currentSlide,    \* the number shown in the span 'currentSlide'
    totalSlides,     \* const totalSlides
    currentSlideIndex, \* let currentSlideIndex: the panel that is shown
    prevDisabled,    \* document.getElementById('prevBtn').disabled
    nextDisabled,    \* document.getElementById('nextBtn').disabled
    last_input,      \* history: the control the user operated last, and the panel shown then
    \* ---- the entry points (main.py:603-779, slide_extractor.py:728-861) ----
    request,         \* the entry point used and the configuration given to it
    epc,             \* how far the entry point has come
    attempted        \* history: what the entry point has started so far

bvars == <<urls, parallel, max_workers, pc, i, active_threads, jn, tpc, job_dir,
           slides_len, outcome, ext_queue, results, dirs,
           status_callback, delivered, status_queue, batch_log, emitted>>
evars == <<source, lib, interval, cfg, rpc, frame_num, prev_frame, slide_count,
           extracted_slides, extracted_text, compared, visited, files, writable, exported,
           video_url, temp_holds, sampled_from>>
cvars == <<cmp_frames, cpc, verdict>>
fvars == <<save_calls, saved, listing, fpc>>
hvars == <<page, active, currentSlide, totalSlides, currentSlideIndex, prevDisabled,
           nextDisabled, last_input>>
nvars == <<request, epc, attempted>>
vars == <<bvars, evars, cvars, fvars, hvars, nvars>>

----------------------------------------------------------------------------
(* Bounds of the model. *)

MaxJobs == 3        \* longest urls list submitted to batch_process
MaxBatchUrls == 2   \* longest batch_urls list of the GUI
MaxFrames == 3      \* largest CAP_PROP_FRAME_COUNT of a video

----------------------------------------------------------------------------
(* Sequence helpers. *)

Last(s) == s[Len(s)]

Range(s) == {s[k] : k \in DOMAIN s}

Max(a, b) == IF a >= b THEN a ELSE b

\* Smallest position at which sep occurs in s, 0 if it does not occur.
IndexOf(s, sep) ==
    LET hits == {k \in 1..(Len(s) - Len(sep) + 1) : SubSeq(s, k, k + Len(sep) - 1) = sep}
    IN  IF hits = {} THEN 0 ELSE CHOOSE k \in hits : \A h \in hits : k <= h

\* Python's str.split(sep): the pieces between the occurrences of sep, left to right.
RECURSIVE Split(_, _)
Split(s, sep) ==
    LET k == IndexOf(s, sep)
    IN  IF k = 0 THEN <<s>>
        ELSE <<SubSeq(s, 1, k - 1)>> \o Split(SubSeq(s, k + Len(sep), Len(s)), sep)

----------------------------------------------------------------------------
(* Videos, frames and the image libraries.                                 *)
(* A decoded frame is the raster it holds; two frames with the same raster *)
(* are the same image.  NoFrame stands for cap.read() returning ret=False. *)

Images == {"imgA", "imgB", "imgC"}

NoFrame == "no_frame"

UPairs == {{a, b} : a, b \in Images} \ {{a} : a \in Images}

\* Answers of skimage's structural_similarity, in hundredths.
ScoreLevels == {40, 80}

\* Recognized texts (pytesseract's answer after strip()): sequences of words.
TextNone == << >>
TextShort == <<"w1", "w2", "w1">>
TextLongA == <<"w1", "w2", "w3", "w4", "w5">>
TextLongB == <<"w1", "w2", "w3", "w6", "w7">>

\* The answers of cv2.compareHist(..., HISTCMP_CORREL), in hundredths, and the
\* recognized texts the runs are checked with:
\* neither signal fires, the histograms of imgA and imgB differ, or the texts
\* of imgA and imgB differ.
HistSame == [p \in UPairs |-> 100]
HistABLow == [p \in UPairs |-> IF p = {"imgA", "imgB"} THEN 90 ELSE 100]
OcrNone == [a \in Images |-> TextNone]
OcrABDiffer ==
    [a \in Images |-> IF a = "imgA" THEN TextLongA ELSE
                      IF a = "imgB" THEN TextLongB ELSE TextShort]

Libs ==
    {[ssim |-> s, hist |-> x[1], ocr |-> x[2]] :
        s \in [UPairs -> ScoreLevels],
        x \in {<<HistSame, OcrNone>>, <<HistABLow, OcrNone>>, <<HistSame, OcrABDiffer>>}}

\* structural_similarity(gray1, gray2): symmetric, 1.0 for equal rasters.
Ssim(l, f1, f2) == IF f1 = f2 THEN 100 ELSE l.ssim[{f1, f2}]

\* compareHist(hist1, hist2, HISTCMP_CORREL): symmetric, 1.0 for equal rasters.
HistCorrel(l, f1, f2) == IF f1 = f2 THEN 100 ELSE l.hist[{f1, f2}]

\* SlideExtractor._extract_text: the recognized text of a frame, stripped.
ExtractText(l, frame) == l.ocr[frame]

HistCutoff == 95    \* hist_diff < 0.95
MinWords == 3       \* len(words) > 3

\* diff_ratio > 0.3 with diff_ratio = 1 - common / max(len1, len2), in IEEE
\* double arithmetic: 1 - 7k/10k evaluates to 0.30000000000000004, which is
\* above 0.3, and every other quotient is far enough from 0.3 for rounding not
\* to matter.
DiffRatioFires(common, longest) == 10 * (longest - common) >= 3 * longest

\* Mutant of TextSignal: the words are counted with their repetitions.
TextSignalCountsRepeats(text1, text2) ==
    LET words1 == Range(text1)
        words2 == Range(text2)
    IN  /\ text1 # << >>
        /\ text2 # << >>
        /\ Len(text1) > MinWords
        /\ Len(text2) > MinWords
        /\ DiffRatioFires(Cardinality(words1 \cap words2),
                          Max(Cardinality(words1), Cardinality(words2)))

\* Mutant of TextSignal: the ratio is taken over the words of the first frame.
TextSignalOverFirst(text1, text2) ==
    LET words1 == Range(text1)
        words2 == Range(text2)
    IN  /\ text1 # << >>
        /\ text2 # << >>
        /\ Cardinality(words1) > MinWords
        /\ Cardinality(words2) > MinWords
        /\ DiffRatioFires(Cardinality(words1 \cap words2), Cardinality(words1))

\* The OCR text comparison of _is_different_slide (lines 242-260).
TextSignal(text1, text2) ==
    LET words1 == Range(text1)
        words2 == Range(text2)
    IN  /\ text1 # << >>
        /\ text2 # << >>
        /\ Cardinality(words1) > MinWords
        /\ Cardinality(words2) > MinWords
        /\ DiffRatioFires(Cardinality(words1 \cap words2),
                          Max(Cardinality(words1), Cardinality(words2)))

\* score < self.similarity_threshold (line 231).
SsimSignal(score, threshold) == score < threshold

\* Mutant of IsDifferentSlide: the histogram check is left out.
IsDifferentSlideNoHist(l, frame1, frame2, threshold) ==
    IF SsimSignal(Ssim(l, frame1, frame2), threshold) THEN TRUE
    ELSE TextSignal(ExtractText(l, frame1), ExtractText(l, frame2))

\* SlideExtractor._is_different_slide(frame1, frame2).
IsDifferentSlide(l, frame1, frame2, threshold) ==
    IF SsimSignal(Ssim(l, frame1, frame2), threshold) THEN TRUE
    ELSE IF HistCorrel(l, frame1, frame2) < HistCutoff THEN TRUE
    ELSE TextSignal(ExtractText(l, frame1), ExtractText(l, frame2))

----------------------------------------------------------------------------
(* Video sources.                                                          *)
(* download: what download_video meets ("ok", "no_stream": no suitable     *)
(* stream, "error": an exception inside the try block); opens: whether     *)
(* cv2.VideoCapture(...).isOpened(); fps100 and total_frames: the video    *)
(* properties; frames[k + 1]: what cap.read() gives at frame index k.      *)

\* CAP_PROP_FPS in hundredths: none, 0.5, 1 and 1.5 frames per second.
FpsChoices == {0, 50, 100, 150}

IntervalChoices == {1, 2}

FrameSeqs == UNION {[1..n -> Images \cup {NoFrame}] : n \in 0..MaxFrames}

SrcDownloadError ==
    [download |-> "error", opens |-> FALSE, fps100 |-> 0, total_frames |-> 0, frames |-> << >>]

SrcNoStream ==
    [download |-> "no_stream", opens |-> FALSE, fps100 |-> 0, total_frames |-> 0, frames |-> << >>]

SrcUnopenable ==
    [download |-> "ok", opens |-> FALSE, fps100 |-> 0, total_frames |-> 0, frames |-> << >>]

VideoSources ==
    {[download |-> "ok", opens |-> TRUE, fps100 |-> f, total_frames |-> Len(fr), frames |-> fr] :
        f \in FpsChoices, fr \in FrameSeqs}

Sources == {SrcDownloadError, SrcNoStream, SrcUnopenable} \cup VideoSources

----------------------------------------------------------------------------
(* SlideExtractor.extract_slides.                                          *)

None == "None"

\* frame_interval = int(fps * self.interval) (line 147).
FrameInterval(src, ival) == (src.fps100 * ival) \div 100

\* The exceptions of lines 149 and 161: total_frames / fps with fps = 0
\* (ZeroDivisionError), range() with a step of 0 (ValueError).
PropsRaise(src, ival) == src.fps100 = 0 \/ FrameInterval(src, ival) = 0

\* current_time = frame_num / fps, cut to whole seconds by split(".")[0].
TimestampSecs(src, n) == (n * 100) \div src.fps100

\* _save_slide(frame, timestamp, count): the filename, by what determines it.
SaveSlide(src, n, count) == [count |-> count, secs |-> TimestampSecs(src, n), frame_num |-> n]

\* _extract_and_store_text(frame, filename): the text is stored when non-empty.
ExtractAndStoreText(l, store, frame, filename) ==
    IF ExtractText(l, frame) # << >>
    THEN store \cup {[slide |-> filename.count, text |-> ExtractText(l, frame)]}
    ELSE store

\* "First frame is always saved": if prev_frame is None (line 172).
IsFirstFrame(prev) == prev = None

\* Mutant of AcceptFrame: slide_count is not advanced.
AcceptFrameKeepCount(st, n, frame, src, l, c) ==
    [st EXCEPT !.prev_frame = frame,
               !.extracted_slides = Append(st.extracted_slides, SaveSlide(src, n, st.slide_count)),
               !.extracted_text =
                   IF c.extract_text
                   THEN ExtractAndStoreText(l, st.extracted_text, frame,
                                            SaveSlide(src, n, st.slide_count))
                   ELSE st.extracted_text]

\* Mutant of AcceptFrame: the frame becomes the reference only inside the
\* text extraction branch.
AcceptFrameReferenceWithText(st, n, frame, src, l, c) ==
    [st EXCEPT !.prev_frame = IF c.extract_text THEN frame ELSE st.prev_frame,
               !.slide_count = st.slide_count + 1,
               !.extracted_slides = Append(st.extracted_slides, SaveSlide(src, n, st.slide_count)),
               !.extracted_text =
                   IF c.extract_text
                   THEN ExtractAndStoreText(l, st.extracted_text, frame,
                                            SaveSlide(src, n, st.slide_count))
                   ELSE st.extracted_text]

\* Lines 173-180 and 185-192: save the slide, make it the reference.
AcceptFrame(st, n, frame, src, l, c) ==
    [st EXCEPT !.prev_frame = frame,
               !.slide_count = st.slide_count + 1,
               !.extracted_slides = Append(st.extracted_slides, SaveSlide(src, n, st.slide_count)),
               !.extracted_text =
                   IF c.extract_text
                   THEN ExtractAndStoreText(l, st.extracted_text, frame,
                                            SaveSlide(src, n, st.slide_count))
                   ELSE st.extracted_text]

\* Mutant of LoopBody: every decoded sample becomes the comparison reference,
\* accepted or not.
LoopBodyPrevSample(st, n, src, l, c) ==
    LET frame == src.frames[n + 1]
        seen  == [st EXCEPT !.visited = Append(st.visited, n)]
    IN  IF frame = NoFrame THEN seen
        ELSE IF IsFirstFrame(st.prev_frame) THEN AcceptFrame(seen, n, frame, src, l, c)
        ELSE IF IsDifferentSlide(l, st.prev_frame, frame, c.threshold)
             THEN AcceptFrame([seen EXCEPT !.compared = st.compared \cup {n}], n, frame, src, l, c)
             ELSE [seen EXCEPT !.compared = st.compared \cup {n}, !.prev_frame = frame]

\* Mutant of LoopBody: a sample that fails to decode clears the reference.
LoopBodyResetOnFail(st, n, src, l, c) ==
    LET frame == src.frames[n + 1]
        seen  == [st EXCEPT !.visited = Append(st.visited, n)]
    IN  IF frame = NoFrame THEN [seen EXCEPT !.prev_frame = None]
        ELSE IF IsFirstFrame(st.prev_frame) THEN AcceptFrame(seen, n, frame, src, l, c)
        ELSE IF IsDifferentSlide(l, st.prev_frame, frame, c.threshold)
             THEN AcceptFrame([seen EXCEPT !.compared = st.compared \cup {n}], n, frame, src, l, c)
             ELSE [seen EXCEPT !.compared = st.compared \cup {n}]

\* One pass of the for loop body (lines 162-192) at sample point n.
LoopBody(st, n, src, l, c) ==
    LET frame == src.frames[n + 1]
        seen  == [st EXCEPT !.visited = Append(st.visited, n)]
    IN  IF frame = NoFrame THEN seen
        ELSE IF IsFirstFrame(st.prev_frame) THEN AcceptFrame(seen, n, frame, src, l, c)
        ELSE IF IsDifferentSlide(l, st.prev_frame, frame, c.threshold)
             THEN AcceptFrame([seen EXCEPT !.compared = st.compared \cup {n}], n, frame, src, l, c)
             ELSE [seen EXCEPT !.compared = st.compared \cup {n}]

\* Mutant of LoopStart: the loop starts with a reference frame already set.
LoopStartWithReference ==
    [prev_frame |-> "imgA", slide_count |-> 0, extracted_slides |-> << >>,
     extracted_text |-> {}, compared |-> {}, visited |-> << >>]

\* Lines 156-158: the loop's variables before the first pass.
LoopStart ==
    [prev_frame |-> None, slide_count |-> 0, extracted_slides |-> << >>,
     extracted_text |-> {}, compared |-> {}, visited |-> << >>]

\* The whole for loop: range(0, total_frames, frame_interval) from sample point n.
RECURSIVE RunLoop(_, _, _, _, _, _)
RunLoop(st, n, src, l, c, ival) ==
    IF n >= src.total_frames THEN st
    ELSE RunLoop(LoopBody(st, n, src, l, c), n + FrameInterval(src, ival), src, l, c, ival)

----------------------------------------------------------------------------
(* The output directory and the export of the slides.                      *)

\* An entry of the output directory; count and secs tell slide images apart.
File(name) == [name |-> name, count |-> 0, secs |-> 0]

\* self.video_path = os.path.join(self.output_dir, "temp_video.mp4") (line 59).
TempVideo == File("temp_video.mp4")

\* path = os.path.join(self.output_dir, filename) of _save_slide (line 327).
SlideFile(slide) == [name |-> "slide", count |-> slide.count, secs |-> slide.secs]

\* The export artifacts: slides_output.pdf (line 360), the html_images folder
\* (line 425) and slides_output.html (line 435).
PdfFile == File("slides_output.pdf")
HtmlImagesDir == File("html_images")
HtmlFile == File("slides_output.html")
ArtifactFiles == {PdfFile, HtmlImagesDir, HtmlFile}

ExportFormats == {"pdf", "html", "images"}

NoSlidesMessage == "No slide images found to convert."

\* exported[r] before the export step is reached.
ExportPending == [result |-> "pending", message |-> ""]

\* Mutant of ExportSlides: the empty list is exported like any other.
ExportSlidesNoEmptyCheck(format, slide_filenames, can_write) ==
    IF format = "pdf"
    THEN IF ~can_write THEN [result |-> "raised", message |-> "", artifacts |-> {}]
         ELSE [result |-> "path", message |-> "PDF created at", artifacts |-> {PdfFile}]
    ELSE IF format = "html"
    THEN IF ~can_write
         THEN [result |-> "raised", message |-> "", artifacts |-> {HtmlImagesDir}]
         ELSE [result |-> "path", message |-> "HTML slideshow created at",
               artifacts |-> {HtmlImagesDir, HtmlFile}]
    ELSE [result |-> "skipped", message |-> "", artifacts |-> {}]

\* Lines 204-208 with convert_slides_to_pdf (337-400) and
\* convert_slides_to_html (402-716): what the call returns ("none": None,
\* "path": the artifact's path, "raised": an exception of the file write,
\* "skipped": no converter is called), the message it prints and the entries
\* it adds to the output directory.
ExportSlides(format, slide_filenames, can_write) ==
    IF format = "pdf"
    THEN IF slide_filenames = << >>
         THEN [result |-> "none", message |-> NoSlidesMessage, artifacts |-> {}]
         ELSE IF ~can_write THEN [result |-> "raised", message |-> "", artifacts |-> {}]
         ELSE [result |-> "path", message |-> "PDF created at", artifacts |-> {PdfFile}]
    ELSE IF format = "html"
    THEN IF slide_filenames = << >>
         THEN [result |-> "none", message |-> NoSlidesMessage, artifacts |-> {}]
         ELSE IF ~can_write
         THEN [result |-> "raised", message |-> "", artifacts |-> {HtmlImagesDir}]
         ELSE [result |-> "path", message |-> "HTML slideshow created at",
               artifacts |-> {HtmlImagesDir, HtmlFile}]
    ELSE [result |-> "skipped", message |-> "", artifacts |-> {}]

\* Lines 134-136: download_video unless the temporary video is already
\* there; a successful download leaves temp_video.mp4 in the output directory.
DownloadIfMissing(dir, src) ==
    IF TempVideo \in dir THEN dir
    ELSE IF src.download = "ok" THEN dir \cup {TempVideo}
    ELSE dir

\* The url whose video temp_video.mp4 holds after lines 134-136: download_video
\* fetches self.video_url into self.video_path only when the file is missing.
DownloadedFrom(dir, src, holds, url) ==
    IF TempVideo \notin dir /\ src.download = "ok" THEN url ELSE holds

\* if not os.path.exists(self.video_path): if not self.download_video(): return []
DownloadFails(dir, src) == TempVideo \notin dir /\ src.download # "ok"

\* Lines 201-202: if os.path.exists(self.video_path): os.remove(self.video_path).
RemoveTempVideo(dir) == dir \ {TempVideo}

\* extract_slides as one step: the exit it takes and the list it returns; the
\* output directory is new and the export artifact can be written.
ExtractSlidesResult(src, l, c, ival) ==
    IF src.download # "ok" THEN [exit |-> "download_failed", slides |-> << >>]
    ELSE IF ~src.opens THEN [exit |-> "open_failed", slides |-> << >>]
    ELSE IF PropsRaise(src, ival) THEN [exit |-> "raised", slides |-> << >>]
    ELSE [exit |-> "returned",
          slides |-> RunLoop(LoopStart, 0, src, l, c, ival).extracted_slides]

----------------------------------------------------------------------------
(* SpecExtract: two runs of extract_slides over the same video file, one   *)
(* after the other, each with its own SlideExtractor (threshold,           *)
(* extract_text).                                                          *)

Runs == {1, 2}

ThresholdChoices == {50, 100}

Configs == [threshold : ThresholdChoices, extract_text : BOOLEAN, export_format : ExportFormats]

\* The loop variables of run r, as LoopBody takes them.
LoopState(r) ==
    [prev_frame |-> prev_frame[r], slide_count |-> slide_count[r],
     extracted_slides |-> extracted_slides[r], extracted_text |-> extracted_text[r],
     compared |-> compared[r], visited |-> visited[r]]

SetLoopState(r, st) ==
    /\ prev_frame' = [prev_frame EXCEPT ![r] = st.prev_frame]
    /\ slide_count' = [slide_count EXCEPT ![r] = st.slide_count]
    /\ extracted_slides' = [extracted_slides EXCEPT ![r] = st.extracted_slides]
    /\ extracted_text' = [extracted_text EXCEPT ![r] = st.extracted_text]
    /\ compared' = [compared EXCEPT ![r] = st.compared]
    /\ visited' = [visited EXCEPT ![r] = st.visited]

loopvars == <<prev_frame, slide_count, extracted_slides, extracted_text, compared, visited>>

\* Lines 156-158 for every run, nothing exported yet.
InitLoopVars ==
    /\ frame_num = [r \in Runs |-> 0]
    /\ prev_frame = [r \in Runs |-> LoopStart.prev_frame]
    /\ slide_count = [r \in Runs |-> LoopStart.slide_count]
    /\ extracted_slides = [r \in Runs |-> LoopStart.extracted_slides]
    /\ extracted_text = [r \in Runs |-> LoopStart.extracted_text]
    /\ compared = [r \in Runs |-> LoopStart.compared]
    /\ visited = [r \in Runs |-> LoopStart.visited]
    /\ exported = [r \in Runs |-> ExportPending]
    /\ sampled_from = [r \in Runs |-> {}]

InitRuns ==
    /\ rpc = [r \in Runs |-> "start"]
    /\ InitLoopVars

\* Lines 133-143: download the video, open it; either failure returns [].
RunOpen(r) ==
    /\ rpc[r] = "start"
    /\ \A q \in Runs : q < r => rpc[q] \in {"returned", "raised"}
    /\ files' = DownloadIfMissing(files, source)
    /\ temp_holds' = DownloadedFrom(files, source, temp_holds, video_url[r])
    /\ rpc' = [rpc EXCEPT ![r] =
                  IF DownloadFails(files, source) \/ ~source.opens THEN "returned" ELSE "opened"]
    /\ UNCHANGED <<bvars, cvars, fvars, hvars, nvars, source, lib, interval, cfg, frame_num, loopvars,
                   writable, exported, video_url, sampled_from>>

\* Lines 145-161: the video properties and the range of the for loop.
RunProps(r) ==
    /\ rpc[r] = "opened"
    /\ rpc' = [rpc EXCEPT ![r] = IF PropsRaise(source, interval) THEN "raised" ELSE "loop"]
    /\ UNCHANGED <<bvars, cvars, fvars, hvars, nvars, source, lib, interval, cfg, frame_num, loopvars,
                   files, writable, exported, video_url, temp_holds, sampled_from>>

\* Lines 161-192: one pass of the for loop; an accepted frame is saved as a
\* slide image in the output directory.
RunLoopStep(r) ==
    /\ rpc[r] = "loop"
    /\ frame_num[r] < source.total_frames
    /\ LET st == LoopBody(LoopState(r), frame_num[r], source, lib, cfg[r])
       IN  /\ SetLoopState(r, st)
           /\ files' = files \cup {SlideFile(sl) : sl \in Range(st.extracted_slides)}
    /\ frame_num' = [frame_num EXCEPT ![r] = frame_num[r] + FrameInterval(source, interval)]
    /\ sampled_from' = [sampled_from EXCEPT ![r] = sampled_from[r] \cup {temp_holds}]
    /\ UNCHANGED <<bvars, cvars, fvars, hvars, nvars, source, lib, interval, cfg, rpc, writable, exported,
                   video_url, temp_holds>>

\* Lines 194-210: the range is exhausted; release the capture, remove the
\* temporary video, export, return the list.  An exception of the export
\* leaves extract_slides.
RunReturn(r) ==
    /\ rpc[r] = "loop"
    /\ frame_num[r] >= source.total_frames
    /\ LET out == ExportSlides(cfg[r].export_format, extracted_slides[r], writable)
       IN  /\ files' = RemoveTempVideo(files) \cup out.artifacts
           /\ temp_holds' = None
           /\ exported' = [exported EXCEPT ![r] =
                               [result |-> out.result, message |-> out.message]]
           /\ rpc' = [rpc EXCEPT ![r] = IF out.result = "raised" THEN "raised" ELSE "returned"]
    /\ UNCHANGED <<bvars, cvars, fvars, hvars, nvars, source, lib, interval, cfg, frame_num, loopvars,
                   writable, video_url, sampled_from>>

----------------------------------------------------------------------------
(* batch_process: URLs and output directories.                             *)
(* A URL is the sequence of its characters (host and path shortened).      *)

UrlWatchA == <<"h", "/", "w", "?", "v", "=", "a">>             \* host/watch?v=a
UrlShortA == <<"y", "/", "a">>                                 \* youtu.be/a
UrlWatchB == <<"h", "/", "w", "?", "v", "=", "b", "&", "t">>   \* host/watch?v=b&t
UrlWatchC == <<"h", "/", "w", "?", "v", "=", "c">>             \* host/watch?v=c
UrlShortD == <<"y", "/", "d">>                                 \* youtu.be/d
UrlShortE == <<"y", "/", "e">>                                 \* youtu.be/e
URLS == {UrlWatchA, UrlShortA, UrlWatchB, UrlWatchC, UrlShortD, UrlShortE}

OutputDir == <<"slides">>

\* video_id = url.split("?v=")[-1].split("&")[0] if "?v=" in url
\*            else url.split("/")[-1]                     (lines 768, 813)
VideoId(url) ==
    IF IndexOf(url, <<"?", "v", "=">>) # 0
    THEN Head(Split(Last(Split(url, <<"?", "v", "=">>)), <<"&">>))
    ELSE Last(Split(url, <<"/">>))

\* video_output_dir = os.path.join(output_dir, f"video_{video_id}") (lines 769, 814)
VideoOutputDir(output_dir, url) == output_dir \o <<"/", "video_">> \o VideoId(url)

----------------------------------------------------------------------------
(* Status messages: (url, message) pairs; n is the number a message text   *)
(* carries (a slide count), 0 when it carries none.                        *)

Msg(u, m, n) == [url |-> u, msg |-> m, n |-> n]

\* The messages download_video sends through _update_status (lines 75-123);
\* the resolution is "highest", an exception is met when the YouTube object
\* is created.
DownloadMessages(u, src) ==
    IF src.download = "error"
    THEN <<Msg(u, "Downloading video from", 0), Msg(u, "Error downloading video", 0)>>
    ELSE IF src.download = "no_stream"
    THEN <<Msg(u, "Downloading video from", 0), Msg(u, "Title", 0),
           Msg(u, "Error: No suitable stream found for this video.", 0)>>
    ELSE <<Msg(u, "Downloading video from", 0), Msg(u, "Title", 0),
           Msg(u, "Downloading stream", 0), Msg(u, "Download complete!", 0)>>

\* convert_slides_to_pdf: the message it sends (lines 354-357, 399).
ExportMessages(u, slides) ==
    IF slides = << >>
    THEN <<Msg(u, "No slide images found to convert to PDF.", 0)>>
    ELSE <<Msg(u, "PDF created at", 0)>>

\* Everything one call of extract_slides sends through _update_status.
ExtractMessages(u, src, l, c, ival) ==
    LET res == ExtractSlidesResult(src, l, c, ival)
        st  == RunLoop(LoopStart, 0, src, l, c, ival)
    IN  IF res.exit = "download_failed" THEN DownloadMessages(u, src)
        ELSE IF res.exit = "open_failed"
        THEN DownloadMessages(u, src) \o <<Msg(u, "Error: Could not open video file", 0)>>
        ELSE IF res.exit = "raised"
        THEN DownloadMessages(u, src) \o
             (IF src.fps100 = 0 THEN << >>
              ELSE <<Msg(u, "Video duration", 0), Msg(u, "Processing frames every", 0)>>)
        ELSE DownloadMessages(u, src) \o
             <<Msg(u, "Video duration", 0), Msg(u, "Processing frames every", 0)>> \o
             [k \in 1..Cardinality(st.extracted_text) |-> Msg(u, "Extracted text from", 0)] \o
             <<Msg(u, "Extracted slides to", Len(res.slides))>> \o
             ExportMessages(u, res.slides)

\* The messages that report a job's fatal error.
ErrorTexts ==
    {"Error downloading video", "Error: No suitable stream found for this video.",
     "Error: Could not open video file"}

\* SlideExtractor._update_status in batch mode (lines 725-726): the message
\* goes onto the extractor's own status_queue.
ExtractorUpdateStatus(queue, msgs) == queue \o msgs

----------------------------------------------------------------------------
(* batch_process and the GUI's status channel.                             *)

Jobs == 1..Len(urls)

WorkerChoices == {1, 2}

MaxWorkersDefault == 3

\* The sources a job of the batch may meet when it downloads its video.
SrcZeroFps ==
    [download |-> "ok", opens |-> TRUE, fps100 |-> 0, total_frames |-> 1, frames |-> <<"imgA">>]

SrcTwoFrames ==
    [download |-> "ok", opens |-> TRUE, fps100 |-> 100, total_frames |-> 2,
     frames |-> <<"imgA", "imgB">>]

\* What each URL of the model resolves to when it is downloaded.
SourceOf(url) ==
    IF url = UrlWatchB THEN SrcZeroFps
    ELSE IF url = UrlWatchC THEN SrcDownloadError
    ELSE IF url = UrlShortD THEN SrcNoStream
    ELSE IF url = UrlShortE THEN SrcUnopenable
    ELSE SrcTwoFrames

BatchLib ==
    [ssim |-> [p \in UPairs |-> 40], hist |-> [p \in UPairs |-> 100],
     ocr |-> [a \in Images |-> TextNone]]

\* Thread.is_alive(): started and not yet finished.
LiveStates == {"starting", "construct", "extract", "complete", "store"}

IsAlive(j) == tpc[j] \in LiveStates

\* Mutant of PoolFull: the wait loop admits one thread too many.
PoolFullOffByOne(threads, max_active) == Len(threads) > max_active

\* while len(active_threads) >= max_active (line 763).
PoolFull(threads, max_active) == Len(threads) >= max_active

\* Mutant of AliveOnly: the wait loop keeps the threads that have ended.
AliveOnlyNoPrune(threads) == threads

\* active_threads = [t for t in active_threads if t.is_alive()] (line 764).
AliveOnly(threads) == SelectSeq(threads, IsAlive)

\* Mutant of Joined: the final loop does not wait for the thread.
JoinedNoWait(j) == TRUE

\* thread.join() returns (line 808).
Joined(j) == ~IsAlive(j)

\* Mutant of SeqBodyDone: the loop goes on as soon as the job has been started.
SeqBodyDoneEarly(j) == tpc[j] # "unstarted"

\* The body of the sequential for loop has run to its end (line 837).
SeqBodyDone(j) == tpc[j] = "done"

\* batch_process.update_status hands the message to status_callback
\* (slide_extractor.py:752-754); the GUI's callback puts it on its status
\* queue (main.py:785-786).
UpdateStatus(m) ==
    /\ delivered' = delivered \cup {m}
    /\ status_queue' = IF status_callback = "gui" THEN Append(status_queue, m) ELSE status_queue
    /\ emitted' = IF status_callback = "gui" THEN Append(emitted, m) ELSE emitted

\* results[url] = {...} (lines 790-793, 834-837).
StoreResult(res, u, entry) ==
    [k \in DOMAIN res \cup {u} |-> IF k = u THEN entry ELSE res[k]]

\* Mutant of QueueGet: the monitor takes the newest message.
QueueGetNewest(queue) ==
    [item |-> queue[Len(queue)], rest |-> SubSeq(queue, 1, Len(queue) - 1)]

\* monitor_queue takes the oldest message of the queue (main.py:834).
QueueGet(queue) == [item |-> Head(queue), rest |-> Tail(queue)]

jobvars == <<tpc, job_dir, slides_len, outcome, ext_queue>>
chanvars == <<delivered, status_queue, batch_log, emitted>>
argvars == <<urls, parallel, max_workers, status_callback>>

\* Lines 763-765: the pool is full; drop the finished threads, sleep, look again.
WaitForSlot ==
    /\ pc = "for" /\ parallel /\ i <= Len(urls)
    /\ PoolFull(active_threads, max_workers)
    /\ active_threads' = AliveOnly(active_threads)
    /\ UNCHANGED <<argvars, pc, i, jn, jobvars, results, dirs, chanvars, evars, cvars, fvars, hvars, nvars>>

\* Lines 767-802: make the job's directory, start its thread, keep the thread.
StartThread ==
    /\ pc = "for" /\ parallel /\ i <= Len(urls)
    /\ ~PoolFull(active_threads, max_workers)
    /\ job_dir' = [job_dir EXCEPT ![i] = VideoOutputDir(OutputDir, urls[i])]
    /\ dirs' = dirs \cup {VideoOutputDir(OutputDir, urls[i])}
    /\ tpc' = [tpc EXCEPT ![i] = "starting"]
    /\ active_threads' = Append(active_threads, i)
    /\ pc' = "added"
    /\ UNCHANGED <<argvars, i, jn, slides_len, outcome, ext_queue, results, chanvars, evars, cvars, fvars, hvars, nvars>>

\* Line 804, then the next url.
AddedToQueue ==
    /\ pc = "added"
    /\ UpdateStatus(Msg(urls[i], "Added to processing queue", 0))
    /\ i' = i + 1
    /\ pc' = "for"
    /\ UNCHANGED <<argvars, active_threads, jn, jobvars, results, dirs, batch_log, evars, cvars, fvars, hvars, nvars>>

\* Lines 807-808: join the next thread of active_threads.
JoinThread ==
    /\ pc = "for" /\ parallel /\ i > Len(urls)
    /\ jn <= Len(active_threads)
    /\ Joined(active_threads[jn])
    /\ jn' = jn + 1
    /\ UNCHANGED <<argvars, pc, i, active_threads, jobvars, results, dirs, chanvars, evars, cvars, fvars, hvars, nvars>>

\* Lines 813-815: the sequential loop makes the job's directory and runs the body.
SeqBegin ==
    /\ pc = "for" /\ ~parallel /\ i <= Len(urls)
    /\ job_dir' = [job_dir EXCEPT ![i] = VideoOutputDir(OutputDir, urls[i])]
    /\ dirs' = dirs \cup {VideoOutputDir(OutputDir, urls[i])}
    /\ tpc' = [tpc EXCEPT ![i] = "starting"]
    /\ pc' = "body"
    /\ UNCHANGED <<argvars, i, active_threads, jn, slides_len, outcome, ext_queue,
                   results, chanvars, evars, cvars, fvars, hvars, nvars>>

\* Line 811: the body is over, the for loop takes the next url.
SeqNext ==
    /\ pc = "body"
    /\ SeqBodyDone(i)
    /\ i' = i + 1
    /\ pc' = "for"
    /\ UNCHANGED <<argvars, active_threads, jn, jobvars, results, dirs, chanvars, evars, cvars, fvars, hvars, nvars>>

\* Line 839: return results.
ReturnResults ==
    /\ pc = "for" /\ i > Len(urls)
    /\ parallel => jn > Len(active_threads)
    /\ pc' = "returned"
    /\ UNCHANGED <<argvars, i, active_threads, jn, jobvars, results, dirs, chanvars, evars, cvars, fvars, hvars, nvars>>

\* Lines 774 / 817: "Starting extraction".
JobStarting(j) ==
    /\ tpc[j] = "starting"
    /\ UpdateStatus(Msg(urls[j], "Starting extraction", 0))
    /\ tpc' = [tpc EXCEPT ![j] = "construct"]
    /\ UNCHANGED <<argvars, pc, i, active_threads, jn, job_dir, slides_len, outcome,
                   ext_queue, results, dirs, batch_log, evars, cvars, fvars, hvars, nvars>>

\* Lines 775-784 / 819-828: SlideExtractor(...), with its own status queue
\* (line 61) and its output directory (line 64).
JobConstruct(j) ==
    /\ tpc[j] = "construct"
    /\ ext_queue' = [ext_queue EXCEPT ![j] = << >>]
    /\ dirs' = dirs \cup {job_dir[j]}
    /\ tpc' = [tpc EXCEPT ![j] = "extract"]
    /\ UNCHANGED <<argvars, pc, i, active_threads, jn, job_dir, slides_len, outcome,
                   results, chanvars, evars, cvars, fvars, hvars, nvars>>

\* Lines 786 / 830: slides = extractor.extract_slides().  An exception ends
\* the job's thread in parallel mode and leaves batch_process in sequential mode.
JobExtract(j) ==
    /\ tpc[j] = "extract"
    /\ LET src == SourceOf(urls[j])
           res == ExtractSlidesResult(src, lib, cfg[1], interval)
       IN  /\ outcome' = [outcome EXCEPT ![j] = res.exit]
             /\ slides_len' = [slides_len EXCEPT ![j] = Len(res.slides)]
             /\ ext_queue' = [ext_queue EXCEPT ![j] =
                    ExtractorUpdateStatus(ext_queue[j],
                        ExtractMessages(urls[j], src, lib, cfg[1], interval))]
             /\ tpc' = [tpc EXCEPT ![j] = IF res.exit = "raised" THEN "dead" ELSE "complete"]
             /\ pc' = IF res.exit = "raised" /\ ~parallel THEN "raised" ELSE pc
    /\ UNCHANGED <<argvars, i, active_threads, jn, job_dir, results, dirs, chanvars, evars, cvars, fvars, hvars, nvars>>

\* Lines 787 / 831: "Extraction complete. Found n slides."
JobComplete(j) ==
    /\ tpc[j] = "complete"
    /\ UpdateStatus(Msg(urls[j], "Extraction complete. Found", slides_len[j]))
    /\ tpc' = [tpc EXCEPT ![j] = "store"]
    /\ UNCHANGED <<argvars, pc, i, active_threads, jn, job_dir, slides_len, outcome,
                   ext_queue, results, dirs, batch_log, evars, cvars, fvars, hvars, nvars>>

\* Lines 790-793 / 834-837: store the job's entry.
JobStore(j) ==
    /\ tpc[j] = "store"
    /\ results' = StoreResult(results, urls[j],
                      [slide_count |-> slides_len[j], output_dir |-> job_dir[j]])
    /\ tpc' = [tpc EXCEPT ![j] = "done"]
    /\ UNCHANGED <<argvars, pc, i, active_threads, jn, job_dir, slides_len, outcome,
                   ext_queue, dirs, chanvars, evars, cvars, fvars, hvars, nvars>>

\* main.py:830-844: the monitor thread takes a message and logs it.
MonitorQueue ==
    /\ status_queue # << >>
    /\ batch_log' = Append(batch_log, QueueGet(status_queue).item)
    /\ status_queue' = QueueGet(status_queue).rest
    /\ UNCHANGED <<argvars, pc, i, active_threads, jn, jobvars, results, dirs,
                   delivered, emitted, evars, cvars, fvars, hvars, nvars>>

\* No call of _is_different_slide is followed on its own.
IdleCompare ==
    /\ cmp_frames = <<None, None>>
    /\ cpc = "idle"
    /\ verdict = FALSE

\* No slide image is being named.
IdleNames ==
    /\ save_calls = << >>
    /\ saved = << >>
    /\ listing = << >>
    /\ fpc = "idle"

\* No slideshow is open in a browser.
IdleHtml ==
    /\ page = "closed"
    /\ active = {}
    /\ currentSlide = 0
    /\ totalSlides = 0
    /\ currentSlideIndex = 1
    /\ prevDisabled = FALSE
    /\ nextDisabled = FALSE
    /\ last_input = [control |-> "none", from |-> 0]

\* No entry point is followed on its own.
IdleEntry ==
    /\ request = [point |-> "none", url_given |-> TRUE, numeric |-> TRUE,
                  interval |-> 1, threshold |-> 50]
    /\ epc = "idle"
    /\ attempted = {}

\* No run of extract_slides is followed step by step.
IdleLoop ==
    /\ source = SrcUnopenable
    /\ interval = 1
    /\ rpc = [r \in Runs |-> "idle"]
    /\ frame_num = [r \in Runs |-> 0]
    /\ prev_frame = [r \in Runs |-> LoopStart.prev_frame]
    /\ slide_count = [r \in Runs |-> LoopStart.slide_count]
    /\ extracted_slides = [r \in Runs |-> LoopStart.extracted_slides]
    /\ extracted_text = [r \in Runs |-> LoopStart.extracted_text]
    /\ compared = [r \in Runs |-> LoopStart.compared]
    /\ visited = [r \in Runs |-> LoopStart.visited]
    /\ files = {}
    /\ writable = TRUE
    /\ exported = [r \in Runs |-> ExportPending]
    /\ video_url = [r \in Runs |-> UrlWatchA]
    /\ temp_holds = None
    /\ sampled_from = [r \in Runs |-> {}]

IdleRuns ==
    /\ lib = BatchLib
    /\ cfg = [r \in Runs |-> [threshold |-> 50, extract_text |-> FALSE, export_format |-> "pdf"]]
    /\ IdleLoop

IdleBatch ==
    /\ urls = << >>
    /\ parallel = FALSE
    /\ max_workers = MaxWorkersDefault
    /\ status_callback = "record"
    /\ pc = "idle"
    /\ i = 1
    /\ active_threads = << >>
    /\ jn = 1
    /\ tpc = << >>
    /\ job_dir = << >>
    /\ slides_len = << >>
    /\ outcome = << >>
    /\ ext_queue = << >>
    /\ results = << >>
    /\ dirs = {}
    /\ status_queue = << >>
    /\ batch_log = << >>
    /\ emitted = << >>
    /\ delivered = {}

\* batch_process is called with the given urls and status callback.
InitBatch(urlseqs, callback) ==
    /\ urls \in urlseqs
    /\ parallel \in BOOLEAN
    /\ max_workers \in (IF parallel THEN WorkerChoices ELSE {MaxWorkersDefault})
    /\ status_callback = callback
    /\ pc = "for"
    /\ i = 1
    /\ active_threads = << >>
    /\ jn = 1
    /\ tpc = [j \in Jobs |-> "unstarted"]
    /\ job_dir = [j \in Jobs |-> << >>]
    /\ slides_len = [j \in Jobs |-> 0]
    /\ outcome = [j \in Jobs |-> "none"]
    /\ ext_queue = [j \in Jobs |-> << >>]
    /\ results = << >>
    /\ dirs = {}
    /\ delivered = {}
    /\ status_queue = << >>
    /\ batch_log = << >>
    /\ emitted = << >>
    /\ IdleRuns
    /\ IdleCompare
    /\ IdleNames
    /\ IdleHtml
    /\ IdleEntry

BatchStep ==
    \/ WaitForSlot
    \/ StartThread
    \/ AddedToQueue
    \/ JoinThread
    \/ SeqBegin
    \/ SeqNext
    \/ ReturnResults
    \/ \E j \in Jobs : JobStarting(j)
    \/ \E j \in Jobs : JobConstruct(j)
    \/ \E j \in Jobs : JobExtract(j)
    \/ \E j \in Jobs : JobComplete(j)
    \/ \E j \in Jobs : JobStore(j)

\* Spec: batch_process with a callback that records what it is given.
Init == InitBatch(UNION {[1..n -> URLS] : n \in 0..MaxJobs}, "record")

Next == BatchStep

Spec == Init /\ [][Next]_vars

\* SpecGui: batch_process as run_batch_processing calls it (main.py:789-800),
\* with the monitor thread draining the status queue.  The urls entered in the
\* GUI are one whose job succeeds and one whose job ends with an exception.
BatchUrlChoices == {UrlWatchA, UrlWatchB}

InitGui == InitBatch(UNION {[1..n -> BatchUrlChoices] : n \in 1..MaxBatchUrls}, "gui")

NextGui ==
    \/ BatchStep
    \/ MonitorQueue

SpecGui == InitGui /\ [][NextGui]_vars

\* SpecLive: batch_process under a fair scheduler.  The thread that runs
\* batch_process keeps running while it has a step to take (time.sleep(0.1)
\* of the wait loop returns), and so does the thread of every job, whose
\* pipeline takes finitely many steps.
CoordinatorStep ==
    \/ WaitForSlot
    \/ StartThread
    \/ AddedToQueue
    \/ JoinThread
    \/ SeqBegin
    \/ SeqNext
    \/ ReturnResults

\* A step of process_url for the job at position j (lines 773-793, 816-837).
JobStep(j) ==
    /\ j \in Jobs
    /\ \/ JobStarting(j)
       \/ JobConstruct(j)
       \/ JobExtract(j)
       \/ JobComplete(j)
       \/ JobStore(j)

InitLive == InitBatch(UNION {[1..n -> BatchUrlChoices] : n \in 1..MaxBatchUrls}, "record")

Fairness ==
    /\ WF_vars(CoordinatorStep)
    /\ \A j \in 1..MaxBatchUrls : WF_vars(JobStep(j))

SpecLive == InitLive /\ [][Next]_vars /\ Fairness

\* SpecExtract: run 1 uses threshold 0.5 without text extraction, run 2 any
\* threshold with or without it; both export to pdf into a new, writable
\* output directory.
InitExtract ==
    /\ IdleBatch
    /\ source \in Sources
    /\ lib \in Libs
    /\ interval \in IntervalChoices
    /\ cfg \in [Runs -> Configs]
    /\ cfg[1].threshold = 50
    /\ ~cfg[1].extract_text
    /\ \A r \in Runs : cfg[r].export_format = "pdf"
    /\ files = {}
    /\ writable = TRUE
    /\ video_url = [r \in Runs |-> UrlWatchA]
    /\ temp_holds = None
    /\ InitRuns
    /\ IdleCompare
    /\ IdleNames
    /\ IdleHtml
    /\ IdleEntry

NextExtract ==
    \/ \E r \in Runs : RunOpen(r)
    \/ \E r \in Runs : RunProps(r)
    \/ \E r \in Runs : RunLoopStep(r)
    \/ \E r \in Runs : RunReturn(r)

SpecExtract == InitExtract /\ [][NextExtract]_vars

\* SpecReuse: two extractions started one after the other from the GUI
\* (main.py:603-682), the first for one url, the second for another, both with
\* the default output directory; between them the interval field may be
\* changed.  Both urls resolve to videos with the same properties;
\* temp_holds tells them apart.
ChangeInterval ==
    /\ rpc[1] \in {"returned", "raised"}
    /\ rpc[2] = "start"
    /\ interval' \in IntervalChoices \ {interval}
    /\ UNCHANGED <<bvars, cvars, fvars, hvars, nvars, source, lib, cfg, rpc, frame_num, loopvars,
                   files, writable, exported, video_url, temp_holds, sampled_from>>

InitReuse ==
    /\ IdleBatch
    /\ source \in Sources
    /\ lib = BatchLib
    /\ interval \in IntervalChoices
    /\ cfg = [r \in Runs |-> [threshold |-> 50, extract_text |-> FALSE, export_format |-> "images"]]
    /\ files = {}
    /\ writable = TRUE
    /\ video_url = [r \in Runs |-> IF r = 1 THEN UrlWatchA ELSE UrlWatchC]
    /\ temp_holds = None
    /\ InitRuns
    /\ IdleCompare
    /\ IdleNames
    /\ IdleHtml
    /\ IdleEntry

NextReuse ==
    \/ NextExtract
    \/ ChangeInterval

SpecReuse == InitReuse /\ [][NextReuse]_vars

\* SpecExport: one run of extract_slides, with every export format, an output
\* directory that may hold a temporary video left by an earlier run, and an
\* export artifact that may be impossible to write.
InitExport ==
    /\ IdleBatch
    /\ IdleCompare
    /\ IdleNames
    /\ IdleHtml
    /\ IdleEntry
    /\ source \in Sources
    /\ lib = BatchLib
    /\ interval \in IntervalChoices
    /\ cfg \in {[r \in Runs |-> [threshold |-> 50, extract_text |-> FALSE,
                                  export_format |-> f]] : f \in ExportFormats}
    /\ files \in {{}, {TempVideo}}
    /\ video_url = [r \in Runs |-> UrlWatchA]
    /\ temp_holds = (IF TempVideo \in files THEN UrlShortE ELSE None)
    /\ writable \in BOOLEAN
    /\ InitLoopVars
    /\ rpc = [r \in Runs |-> IF r = 1 THEN "start" ELSE "idle"]

\* Mutant of ShowSlide: the index is taken as given, without wrapping.
ShowSlideNoWrap(n, total) ==
    [index |-> n, prev_disabled |-> (n = 1), next_disabled |-> (n = total)]

\* showSlide(n) of the exported page (lines 667-689): the panel shown and the
\* state of the two buttons afterwards.
ShowSlide(n, total) ==
    LET over  == IF n > total THEN 1 ELSE n
        index == IF over < 1 THEN total ELSE over
    IN  [index |-> index, prev_disabled |-> (index = 1), next_disabled |-> (index = total)]

\* The panels the markup gives the class 'active' (line 626): the first.
ActivePanels(n) == {k \in 1..n : k - 1 = 0}

\* Lines 669-681: every panel loses 'active', then the panel of the index
\* gets it and the span shows the index.
SetShown(shown) ==
    /\ active' = {shown.index}
    /\ currentSlide' = shown.index
    /\ currentSlideIndex' = shown.index
    /\ prevDisabled' = shown.prev_disabled
    /\ nextDisabled' = shown.next_disabled

\* The markup of the page written by convert_slides_to_html is parsed: one
\* panel per slide, the first with class 'active' (lines 625-632), the span
\* 'currentSlide' reading 1 (line 619).
LoadPage ==
    /\ page = "closed"
    /\ HtmlFile \in files
    /\ exported[1].result = "path"
    /\ page' = "loaded"
    /\ active' = ActivePanels(Len(extracted_slides[1]))
    /\ currentSlide' = 1
    /\ UNCHANGED <<bvars, evars, cvars, fvars, nvars, totalSlides, currentSlideIndex, prevDisabled,
                   nextDisabled, last_input>>

\* The script of the page runs: totalSlides is
\* len(slide_filenames) (line 663), the script ends with showSlide(1) (line 700).
OpenSlideshow ==
    /\ page = "loaded"
    /\ page' = "open"
    /\ totalSlides' = Len(extracted_slides[1])
    /\ SetShown(ShowSlide(1, Len(extracted_slides[1])))
    /\ UNCHANGED <<bvars, evars, cvars, fvars, nvars, last_input>>

\* The user clicks the Next button (line 620): onclick="nextSlide()" runs
\* unless the button is disabled.
ClickNextBtn ==
    /\ page = "open"
    /\ last_input' = [control |-> "nextBtn", from |-> currentSlideIndex]
    /\ IF nextDisabled
       THEN UNCHANGED <<active, currentSlide, currentSlideIndex, prevDisabled, nextDisabled>>
       ELSE SetShown(ShowSlide(currentSlideIndex + 1, totalSlides))
    /\ UNCHANGED <<bvars, evars, cvars, fvars, nvars, page, totalSlides>>

\* The user clicks the Previous button (line 618): onclick="prevSlide()" runs
\* unless the button is disabled.
ClickPrevBtn ==
    /\ page = "open"
    /\ last_input' = [control |-> "prevBtn", from |-> currentSlideIndex]
    /\ IF prevDisabled
       THEN UNCHANGED <<active, currentSlide, currentSlideIndex, prevDisabled, nextDisabled>>
       ELSE SetShown(ShowSlide(currentSlideIndex - 1, totalSlides))
    /\ UNCHANGED <<bvars, evars, cvars, fvars, nvars, page, totalSlides>>

\* The keydown listener (lines 703-709): ArrowRight calls nextSlide().
KeyArrowRight ==
    /\ page = "open"
    /\ last_input' = [control |-> "ArrowRight", from |-> currentSlideIndex]
    /\ SetShown(ShowSlide(currentSlideIndex + 1, totalSlides))
    /\ UNCHANGED <<bvars, evars, cvars, fvars, nvars, page, totalSlides>>

\* The keydown listener (lines 703-709): ArrowLeft calls prevSlide().
KeyArrowLeft ==
    /\ page = "open"
    /\ last_input' = [control |-> "ArrowLeft", from |-> currentSlideIndex]
    /\ SetShown(ShowSlide(currentSlideIndex - 1, totalSlides))
    /\ UNCHANGED <<bvars, evars, cvars, fvars, nvars, page, totalSlides>>

NextExport ==
    \/ NextExtract
    \/ LoadPage
    \/ OpenSlideshow
    \/ ClickNextBtn
    \/ ClickPrevBtn
    \/ KeyArrowRight
    \/ KeyArrowLeft

SpecExport == InitExport /\ [][NextExport]_vars

----------------------------------------------------------------------------
(* SpecNames: the filenames _save_slide gives to two slides of one job and *)
(* the sorted directory listing an export takes of them.  A filename is    *)
(* the sequence of its characters.                                         *)

DigitChars == <<"0", "1", "2", "3", "4", "5", "6", "7", "8", "9">>

\* str(n) of a non-negative integer.
RECURSIVE Decimal(_)
Decimal(n) ==
    IF n < 10 THEN <<DigitChars[n + 1]>>
    ELSE Decimal(n \div 10) \o <<DigitChars[(n % 10) + 1]>>

\* The zero padding of the formats 03d and 02d: shorter numbers are filled
\* with "0" on the left, longer ones are kept whole.
ZeroPad(digits, width) ==
    IF Len(digits) >= width THEN digits
    ELSE [k \in 1..(width - Len(digits)) |-> "0"] \o digits

\* {count:03d} (line 326).
SlideNumber(count) == ZeroPad(Decimal(count), 3)

SecondsPerDay == 86400
SecondsPerHour == 3600
SecondsPerMinute == 60

\* str(timedelta(seconds=current_time)).split(".")[0] (line 169) for a time of
\* secs whole seconds: H:MM:SS, preceded by "N day(s), " from 24 hours on.
TimedeltaStr(secs) ==
    LET days == secs \div SecondsPerDay
        rest == secs % SecondsPerDay
        hh   == rest \div SecondsPerHour
        mm   == (rest % SecondsPerHour) \div SecondsPerMinute
        ss   == rest % SecondsPerMinute
        dd   == IF days = 0 THEN << >>
                ELSE Decimal(days) \o <<" ", "d", "a", "y">> \o
                     (IF days = 1 THEN << >> ELSE <<"s">>) \o <<",", " ">>
    IN  dd \o Decimal(hh) \o <<":">> \o ZeroPad(Decimal(mm), 2) \o <<":">> \o
        ZeroPad(Decimal(ss), 2)

\* timestamp.replace(':', '-') (line 326).
ReplaceColons(str) == [k \in DOMAIN str |-> IF str[k] = ":" THEN "-" ELSE str[k]]

\* filename = f"slide_{count:03d}_{timestamp.replace(':', '-')}.png" (line 326).
SlideFilename(count, secs) ==
    <<"s", "l", "i", "d", "e", "_">> \o SlideNumber(count) \o <<"_">> \o
    ReplaceColons(TimedeltaStr(secs)) \o <<".", "p", "n", "g">>

\* The characters of the filenames in the order of their code points.
CodePointOrder ==
    <<" ", ",", "-", ".", "0", "1", "2", "3", "4", "5", "6", "7", "8", "9", "_",
      "a", "d", "e", "g", "i", "l", "n", "p", "s", "y">>

CodePointRank(ch) == CHOOSE k \in DOMAIN CodePointOrder : CodePointOrder[k] = ch

\* a < b for two str values, as sorted() compares them (line 349).
RECURSIVE StrLess(_, _)
StrLess(a, b) ==
    IF a = << >> THEN b # << >>
    ELSE IF b = << >> THEN FALSE
    ELSE IF a[1] = b[1] THEN StrLess(Tail(a), Tail(b))
    ELSE CodePointRank(a[1]) < CodePointRank(b[1])

\* sorted(...) of a set of filenames (lines 349-352).
RECURSIVE SortedNames(_)
SortedNames(S) ==
    IF S = {} THEN << >>
    ELSE LET least == CHOOSE x \in S : \A y \in S \ {x} : StrLess(x, y)
         IN  <<least>> \o SortedNames(S \ {least})

\* Slide numbers around the places where the number gets a digit more, and
\* timestamps in seconds below a minute, at one and ten hours and past a day.
SlideCounts == {0, 9, 10, 99, 100, 999, 1000, 1001}
SlideSeconds == {0, 59, 3600, 36000, 90000}

\* The calls of _save_slide for two slides of one job (lines 173, 185): the
\* later slide has the larger number and not the smaller timestamp, and a
\* slide with number c lies at least c samples, each more than half a second
\* long, into the video.
SaveCallPairs ==
    {p \in [1..2 -> [count : SlideCounts, secs : SlideSeconds]] :
        /\ p[1].count < p[2].count
        /\ p[1].secs <= p[2].secs
        /\ \A k \in 1..2 : p[k].count <= 2 * p[k].secs + 1}

\* filename = self._save_slide(frame, timestamp, slide_count) (lines 173, 185).
SaveSlideCall ==
    /\ fpc = "saving"
    /\ Len(saved) < Len(save_calls)
    /\ LET call == save_calls[Len(saved) + 1]
       IN  saved' = Append(saved, SlideFilename(call.count, call.secs))
    /\ UNCHANGED <<bvars, evars, cvars, hvars, nvars, save_calls, listing, fpc>>

\* convert_slides_to_pdf() or convert_slides_to_html() without a list: the
\* sorted listing of the slide images in the directory (lines 348-352, 413-417).
ListSlideFiles ==
    /\ fpc = "saving"
    /\ Len(saved) = Len(save_calls)
    /\ listing' = SortedNames(Range(saved))
    /\ fpc' = "listed"
    /\ UNCHANGED <<bvars, evars, cvars, hvars, nvars, save_calls, saved>>

InitNames ==
    /\ IdleBatch
    /\ IdleRuns
    /\ IdleCompare
    /\ IdleHtml
    /\ IdleEntry
    /\ save_calls \in SaveCallPairs
    /\ saved = << >>
    /\ listing = << >>
    /\ fpc = "saving"

NextNames ==
    \/ SaveSlideCall
    \/ ListSlideFiles

SpecNames == InitNames /\ [][NextNames]_vars

----------------------------------------------------------------------------
(* SpecCompare: one call of _is_different_slide(frame1, frame2), with the  *)
(* answers of the libraries and the threshold drawn from sets that reach    *)
(* both sides of every test of the function.                               *)

\* Answers of compareHist, in hundredths: below, at and above the cutoff.
HistLevels == {90, 95, 100}

\* Recognized texts of the compared frames.
TextFourRepeat == <<"w1", "w2", "w3", "w1">>
TextFour == <<"w1", "w2", "w3", "w4">>
TextTen == <<"w1", "w2", "w3", "w4", "w5", "w6", "w7", "w8", "w9", "w10">>
TextTenSeven == <<"w1", "w2", "w3", "w4", "w5", "w6", "w7", "x1", "x2", "x3">>
TextTenEight == <<"w1", "w2", "w3", "w4", "w5", "w6", "w7", "w8", "x2", "x3">>

CompareTexts ==
    {TextNone, TextShort, TextFourRepeat, TextFour, TextLongA, TextLongB,
     TextTen, TextTenSeven, TextTenEight}

CompareLibs ==
    {[ssim |-> [p \in UPairs |-> s],
      hist |-> [p \in UPairs |-> h],
      ocr  |-> [a \in Images |-> IF a = "imgA" THEN t[1] ELSE
                                  IF a = "imgB" THEN t[2] ELSE TextNone]] :
        s \in ScoreLevels, h \in HistLevels, t \in CompareTexts \X CompareTexts}

\* The pairs of frames the call is made with: two rasters, or the same twice.
FramePairs == {<<"imgA", "imgB">>, <<"imgB", "imgA">>, <<"imgA", "imgA">>}

\* self._is_different_slide(prev_frame, frame) is called (line 184).
CompareCall ==
    /\ cpc = "start"
    /\ cpc' = "called"
    /\ UNCHANGED <<bvars, evars, fvars, hvars, nvars, cmp_frames, verdict>>

\* Lines 223-262: the call runs and returns its verdict.
CompareReturn ==
    /\ cpc = "called"
    /\ verdict' = IsDifferentSlide(lib, cmp_frames[1], cmp_frames[2], cfg[1].threshold)
    /\ cpc' = "returned"
    /\ UNCHANGED <<bvars, evars, fvars, hvars, nvars, cmp_frames>>

InitCompare ==
    /\ IdleBatch
    /\ IdleNames
    /\ IdleLoop
    /\ IdleHtml
    /\ IdleEntry
    /\ lib \in CompareLibs
    /\ cfg \in {[r \in Runs |-> [threshold |-> t, extract_text |-> FALSE, export_format |-> "pdf"]] :
                   t \in ThresholdChoices}
    /\ cmp_frames \in FramePairs
    /\ cpc = "start"
    /\ verdict = FALSE

NextCompare ==
    \/ CompareCall
    \/ CompareReturn

SpecCompare == InitCompare /\ [][NextCompare]_vars

----------------------------------------------------------------------------
(* SpecEntry: the four ways a configuration reaches the extractor: the     *)
(* GUI's single-video form, the GUI's batch form, a call of batch_process  *)
(* and the command line.  A request holds what the user typed or passed:   *)
(* whether a url (a non-empty url list) was given, whether the interval    *)
(* and threshold parse as numbers, and their values (threshold in          *)
(* hundredths).                                                            *)

EntryPoints == {"gui_single", "gui_batch", "batch_process", "cli"}

IntervalInputs == {0, 1, 2}

ThresholdInputs == {5, 10, 50, 100, 150}

Requests ==
    {[point |-> p, url_given |-> u, numeric |-> TRUE, interval |-> n, threshold |-> t] :
        p \in EntryPoints, u \in BOOLEAN, n \in IntervalInputs, t \in ThresholdInputs}
    \cup
    {[point |-> p, url_given |-> u, numeric |-> FALSE, interval |-> 1, threshold |-> 50] :
        p \in EntryPoints \ {"batch_process"}, u \in BOOLEAN}

\* The checks of SlideExtractorApp.extract_slides (main.py:609-627) and
\* start_batch_processing (main.py:722-741): a url, numbers, interval >= 1,
\* 0.1 <= threshold <= 1.0.
GuiAccepts(req) ==
    /\ req.url_given
    /\ req.numeric
    /\ ~(req.interval < 1)
    /\ ~(req.threshold < 10 \/ req.threshold > 100)

\* parser.parse_args() (slide_extractor.py:842-850): the url is required,
\* --interval is an int and --threshold a float; no range is checked.
CliAccepts(req) == req.url_given /\ req.numeric

\* main.py:603-665: the Extract button of the single-video form.
GuiExtractSlides ==
    /\ epc = "start" /\ request.point = "gui_single"
    /\ IF GuiAccepts(request)
       THEN epc' = "thread" /\ attempted' = attempted \cup {"thread"}
       ELSE epc' = "rejected" /\ UNCHANGED attempted
    /\ UNCHANGED <<bvars, evars, cvars, fvars, hvars, request>>

\* main.py:719-779: the Start button of the batch form.
GuiStartBatchProcessing ==
    /\ epc = "start" /\ request.point = "gui_batch"
    /\ IF GuiAccepts(request)
       THEN epc' = "thread" /\ attempted' = attempted \cup {"thread"}
       ELSE epc' = "rejected" /\ UNCHANGED attempted
    /\ UNCHANGED <<bvars, evars, cvars, fvars, hvars, request>>

\* main.py:667-680 and 781-800: the worker thread builds the extractor, or
\* calls batch_process, which builds one for the first url.
GuiWorkerThread ==
    /\ epc = "thread"
    /\ epc' = "construct"
    /\ UNCHANGED <<bvars, evars, cvars, fvars, hvars, request, attempted>>

\* slide_extractor.py:841-850: the command line is parsed.
CliMain ==
    /\ epc = "start" /\ request.point = "cli"
    /\ epc' = IF CliAccepts(request) THEN "construct" ELSE "rejected"
    /\ UNCHANGED <<bvars, evars, cvars, fvars, hvars, request, attempted>>

\* slide_extractor.py:728-770: batch_process is called; with an empty url
\* list it returns at once, otherwise it goes to its first url.
BatchProcessCall ==
    /\ epc = "start" /\ request.point = "batch_process"
    /\ epc' = IF request.url_given THEN "construct" ELSE "returned"
    /\ UNCHANGED <<bvars, evars, cvars, fvars, hvars, request, attempted>>

\* SlideExtractor(...) (slide_extractor.py:49-64; 770 in a batch): the output
\* directory is created.
EntryConstruct ==
    /\ epc = "construct"
    /\ attempted' = attempted \cup {"makedirs"}
    /\ epc' = "extract"
    /\ UNCHANGED <<bvars, evars, cvars, fvars, hvars, request>>

\* extractor.extract_slides() is called and starts the download
\* (slide_extractor.py:134-135).
EntryExtract ==
    /\ epc = "extract"
    /\ attempted' = attempted \cup {"download"}
    /\ epc' = "processing"
    /\ UNCHANGED <<bvars, evars, cvars, fvars, hvars, request>>

InitEntry ==
    /\ IdleBatch
    /\ IdleRuns
    /\ IdleCompare
    /\ IdleNames
    /\ IdleHtml
    /\ request \in Requests
    /\ epc = "start"
    /\ attempted = {}

NextEntry ==
    \/ GuiExtractSlides
    \/ GuiStartBatchProcessing
    \/ GuiWorkerThread
    \/ CliMain
    \/ BatchProcessCall
    \/ EntryConstruct
    \/ EntryExtract

SpecEntry == InitEntry /\ [][NextEntry]_vars

----------------------------------------------------------------------------
(* Claims about batch_process (Spec, SpecGui).                             *)

Terminal(j) == tpc[j] \in {"done", "dead"}

Started(j) == tpc[j] # "unstarted"

\* C1: when batch_process returns, every submitted job's URL has an entry in
\* the result map, and a job that failed (download or open failure, or an
\* exception inside its pipeline) has slide_count = 0 there.
C1_EveryJobInResults ==
    pc = "returned" =>
        \A j \in Jobs :
            /\ urls[j] \in DOMAIN results
            /\ outcome[j] # "returned" => results[urls[j]].slide_count = 0

\* C2: a job's fatal error never aborts its siblings: once batch_process is
\* over (it returned or an exception left it), every job of the batch has been
\* started and has run to its terminal state.
C2_SiblingsRunToEnd ==
    pc \in {"returned", "raised"} => \A j \in Jobs : Terminal(j)

\* C3: in parallel mode the number of job threads that are started and not
\* finished never exceeds max_workers.
C3_AtMostMaxWorkersAlive ==
    parallel => Cardinality({j \in Jobs : IsAlive(j)}) <= max_workers

\* C3 witness: the pool is full of running threads while a further url waits.
C3_PoolFullWitness ==
    /\ parallel /\ pc = "for" /\ i <= Len(urls)
    /\ Cardinality({j \in Jobs : IsAlive(j)}) = max_workers

\* C4: batch_process returns only after every submitted job has reached a
\* terminal state; no thread it started is still running, pruned or not.
C4_ReturnsAfterAllJobsEnd ==
    pc = "returned" => \A j \in Jobs : Terminal(j) /\ ~IsAlive(j)

\* C4 witness: a parallel batch has returned after dropping finished threads
\* from active_threads, so the final join loop did not see every thread.
C4_ReturnedAfterPruneWitness ==
    /\ parallel /\ pc = "returned"
    /\ Len(urls) >= 2
    /\ Len(active_threads) < Len(urls)

\* C5: in sequential mode a job is started only when every earlier job has
\* finished its pipeline and has its entry in the result map.
C5_SequentialInOrder ==
    ~parallel =>
        \A j \in Jobs :
            Started(j) =>
                \A k \in 1..(j - 1) : tpc[k] = "done" /\ urls[k] \in DOMAIN results

\* C5 witness: the second job of a sequential batch is running.
C5_SecondJobRunsWitness ==
    /\ ~parallel
    /\ Len(urls) >= 2
    /\ IsAlive(2)

\* C6: any two distinct jobs of a batch have distinct output directories.
C6_DistinctOutputDirs ==
    \A j, k \in Jobs :
        (j # k /\ Started(j) /\ Started(k)) => job_dir[j] # job_dir[k]

\* C7: when a job fails fatally (download failure, no suitable stream, video
\* file cannot be opened), its error message has been handed to the
\* status_callback of batch_process by the time extract_slides has returned.
C7_ErrorReachesCallback ==
    \A j \in Jobs :
        (tpc[j] \in {"complete", "store", "done"} /\
         outcome[j] \in {"download_failed", "open_failed"})
            => \E m \in delivered : m.url = urls[j] /\ m.msg \in ErrorTexts

\* The messages of s that belong to url u, in their order in s.
OfUrl(s, u) == LET Is(m) == m.url = u IN SelectSeq(s, Is)

\* C8: for every url, the messages the monitor has logged followed by those
\* still queued are exactly the messages emitted for that url, in emission
\* order: nothing is lost, duplicated or reordered.
C8_StatusOrderKept ==
    \A u \in URLS : OfUrl(batch_log \o status_queue, u) = OfUrl(emitted, u)

\* C8 witness: in a parallel batch the monitor has logged two messages of one
\* job while messages of another job are still queued.
C8_LoggedAndQueuedWitness ==
    /\ parallel
    /\ \E u, w \in URLS :
         /\ u # w
         /\ Len(OfUrl(batch_log, u)) >= 2
         /\ Len(OfUrl(status_queue, w)) >= 1
         /\ Len(OfUrl(batch_log, w)) >= 1

----------------------------------------------------------------------------
(* Claims about extract_slides (SpecExtract).                              *)

\* C9: over the same frame sequence, the run with the lower threshold yields
\* at least as many slides as the run with the higher threshold.
C9_LowerThresholdMoreSlides ==
    (/\ rpc[1] = "returned" /\ rpc[2] = "returned"
     /\ cfg[1].threshold < cfg[2].threshold)
        => Len(extracted_slides[1]) >= Len(extracted_slides[2])

\* The positions in visited[r] of the sample points whose frame decoded.
DecodedVisits(r) ==
    {k \in 1..Len(visited[r]) : source.frames[visited[r][k] + 1] # NoFrame}

FirstDecoded(r) ==
    visited[r][CHOOSE k \in DecodedVisits(r) : \A h \in DecodedVisits(r) : k <= h]

\* C10 as stated: for a video with at least one frame, sample point 0 is
\* Slide 0 whatever happens when it is decoded.
C10_SamplePointZeroIsSlide0 ==
    \A r \in Runs :
        (rpc[r] = "returned" /\ source.download = "ok" /\ source.opens /\
         source.total_frames >= 1)
            => /\ Len(extracted_slides[r]) >= 1
               /\ extracted_slides[r][1].frame_num = 0

\* C10 amended: at every point of the frame loop, the first sample point whose
\* frame decoded is Slide 0 and was never passed to _is_different_slide,
\* whatever the threshold; while no sample has decoded there is no slide.
C10_FirstDecodedIsSlide0 ==
    \A r \in Runs :
        IF DecodedVisits(r) = {} THEN extracted_slides[r] = << >>
        ELSE /\ Len(extracted_slides[r]) >= 1
             /\ extracted_slides[r][1].frame_num = FirstDecoded(r)
             /\ extracted_slides[r][1].count = 0
             /\ FirstDecoded(r) \notin compared[r]

\* C10 witness: sample point 0 failed to decode and a later sample point
\* became Slide 0.
C10_LaterSampleIsSlide0Witness ==
    \E r \in Runs :
        /\ Len(visited[r]) >= 2
        /\ source.frames[1] = NoFrame
        /\ Len(extracted_slides[r]) >= 1
        /\ extracted_slides[r][1].frame_num > 0

\* The slides of run r carry the sequence numbers 0..k-1 in acceptance order,
\* one slide per accepted sample point, and slide_count counts them.
NumberedInOrder(r) ==
    LET s == extracted_slides[r]
    IN  /\ Len(s) = slide_count[r]
        /\ \A k \in 1..Len(s) : s[k].count = k - 1
        /\ \A k \in 1..Len(s) : \E h \in DecodedVisits(r) : visited[r][h] = s[k].frame_num
        /\ \A k, h \in 1..Len(s) : k < h => s[k].frame_num < s[h].frame_num

SlidePoints(r) == {extracted_slides[r][k].frame_num : k \in 1..Len(extracted_slides[r])}

\* The frame of the slide accepted last before sample point n.
ReferenceAt(r, n) ==
    LET before == {p \in SlidePoints(r) : p < n}
        latest == CHOOSE p \in before : \A q \in before : q <= p
    IN  source.frames[latest + 1]

\* C12: every decoded sample after the first decoded one is compared, and it
\* becomes a slide iff _is_different_slide(frame of the most recently accepted
\* slide, sample) is true; the comparison reference is always the frame of the
\* last accepted slide, never a rejected sample.
C12_ComparedAgainstLastAccepted ==
    \A r \in Runs :
        /\ prev_frame[r] =
               IF extracted_slides[r] = << >> THEN None
               ELSE source.frames[Last(extracted_slides[r]).frame_num + 1]
        /\ \A h \in DecodedVisits(r) :
               visited[r][h] # FirstDecoded(r) => visited[r][h] \in compared[r]
        /\ \A n \in compared[r] :
               (n \in SlidePoints(r)) <=>
                   IsDifferentSlide(lib, ReferenceAt(r, n), source.frames[n + 1],
                                    cfg[r].threshold)

\* C12 witness: three samples, the second identical to the first and rejected,
\* the third different from the first and from the second in two ways: the
\* first and the third are the slides.
C12_SecondRejectedThirdAcceptedWitness ==
    \E r \in Runs :
        /\ Len(visited[r]) = 3
        /\ source.frames[visited[r][1] + 1] \in Images
        /\ source.frames[visited[r][2] + 1] = source.frames[visited[r][1] + 1]
        /\ SlidePoints(r) = {visited[r][1], visited[r][3]}
        /\ compared[r] = {visited[r][2], visited[r][3]}

----------------------------------------------------------------------------
(* Claims about _is_different_slide (SpecCompare).                         *)

\* The three signals of the call, from the answers of the libraries.
Signal1 == Ssim(lib, cmp_frames[1], cmp_frames[2]) < cfg[1].threshold

Signal2 == HistCorrel(lib, cmp_frames[1], cmp_frames[2]) < HistCutoff

Signal3 == TextSignal(ExtractText(lib, cmp_frames[1]), ExtractText(lib, cmp_frames[2]))

\* The distinct recognized words of the two frames.
Words1 == Range(ExtractText(lib, cmp_frames[1]))

Words2 == Range(ExtractText(lib, cmp_frames[2]))

CommonWords == Cardinality(Words1 \cap Words2)

LongestWords == Max(Cardinality(Words1), Cardinality(Words2))

BothOverMinWords == Cardinality(Words1) > MinWords /\ Cardinality(Words2) > MinWords

\* C13: the verdict of _is_different_slide is the OR of the three signals:
\* true iff structural similarity < threshold, or histogram correlation <
\* 0.95, or the text signal fires; false when none fires.
C13_VerdictIsOrOfSignals ==
    cpc = "returned" => (verdict <=> (Signal1 \/ Signal2 \/ Signal3))

\* C13 witness: the histogram signal alone fires and the verdict is true.
C13_HistogramAloneWitness ==
    /\ cpc = "returned"
    /\ ~Signal1 /\ Signal2 /\ ~Signal3
    /\ verdict

\* C19: the text signal counts only when both frames yield more than 3
\* distinct recognized words: then the verdict is the OR of signals 1, 2 and
\* the word difference ratio test; otherwise (a text empty, or 3 or fewer
\* distinct words on either side) the verdict is the OR of signals 1 and 2.
C19_TextSignalNeedsFourDistinctWords ==
    cpc = "returned" =>
        IF BothOverMinWords
        THEN verdict <=> (Signal1 \/ Signal2 \/ DiffRatioFires(CommonWords, LongestWords))
        ELSE verdict <=> (Signal1 \/ Signal2)

\* C19 witness: one text has four words but only three distinct ones, the
\* word sets differ enough for the ratio test, signals 1 and 2 are silent,
\* and the frames are judged the same slide.
C19_RepeatedWordsDisableWitness ==
    /\ cpc = "returned"
    /\ ~Signal1 /\ ~Signal2
    /\ Len(ExtractText(lib, cmp_frames[1])) > MinWords
    /\ Cardinality(Words1) <= MinWords
    /\ Cardinality(Words2) > MinWords
    /\ DiffRatioFires(CommonWords, LongestWords)
    /\ ~verdict

\* C20: when the text signal applies and signals 1 and 2 are silent, the
\* verdict is true iff 10 * (max(|words1|, |words2|) - |common|) is strictly
\* greater than 3 * max(|words1|, |words2|); a ratio of exactly 0.3 does not
\* fire.
C20_FiresIffRatioStrictlyAbove ==
    (cpc = "returned" /\ ~Signal1 /\ ~Signal2 /\ BothOverMinWords)
        => (verdict <=> 10 * (LongestWords - CommonWords) > 3 * LongestWords)

----------------------------------------------------------------------------
(* Claims about the output directory and the export (SpecExport).          *)

\* C14: export of an empty slide list fails for the pdf and html formats (the
\* converter returns no path and reports that no slide images were found),
\* does nothing and fails nothing for the images format, and in all three
\* cases leaves no export artifact in the output directory.
C14_EmptyExportFailsNoArtifact ==
    \A r \in Runs :
        (exported[r].result # "pending" /\ extracted_slides[r] = << >>) =>
            /\ cfg[r].export_format \in {"pdf", "html"} =>
                   /\ exported[r].result = "none"
                   /\ exported[r].message = NoSlidesMessage
            /\ cfg[r].export_format = "images" =>
                   /\ exported[r].result = "skipped"
                   /\ exported[r].message = ""
            /\ files \cap ArtifactFiles = {}

\* C14 witness: a video whose frames all fail to decode reached the html
\* export with no slide.
C14_EmptyHtmlExportWitness ==
    /\ source.total_frames >= 1
    /\ cfg[1].export_format = "html"
    /\ extracted_slides[1] = << >>
    /\ exported[1].result = "none"

\* C17: when extract_slides has returned, no temporary video copy is left in
\* the output directory, whichever return path was taken.
C17_TempVideoGoneOnReturn ==
    \A r \in Runs : rpc[r] = "returned" => TempVideo \notin files

\* C18: when the export of a run failed (nothing to export, or the artifact
\* could not be written), extract_slides has still returned its list of
\* slides.
C18_ExportFailureStillReturnsSlides ==
    \A r \in Runs : exported[r].result \in {"none", "raised"} => rpc[r] = "returned"

\* C15: in the exported slideshow every navigation control wraps around:
\* after the Next button or the right arrow key is used on the last panel the
\* first panel is shown, and after the Previous button or the left arrow key
\* is used on the first panel the last panel is shown.
C15_EveryControlWraps ==
    page = "open" =>
        /\ (last_input.control \in {"nextBtn", "ArrowRight"} /\ last_input.from = totalSlides)
               => currentSlideIndex = 1
        /\ (last_input.control \in {"prevBtn", "ArrowLeft"} /\ last_input.from = 1)
               => currentSlideIndex = totalSlides

----------------------------------------------------------------------------
(* Claims about the entry points (SpecEntry).                              *)

\* C16: on every entry point a numeric interval below 1 or a threshold
\* outside [0.1, 1.0] is rejected before anything is attempted: no thread is
\* started, no directory is made, no download begins.
C16_OutOfRangeRejectedEverywhere ==
    (/\ request.numeric
     /\ \/ request.interval < 1
        \/ request.threshold < 10
        \/ request.threshold > 100)
        => /\ epc \in {"start", "rejected", "returned"}
           /\ attempted = {}

----------------------------------------------------------------------------
(* Claims about the sampling of frames (SpecExtract).                      *)

\* fps * interval rounded to the nearest whole number of frames.
RoundedStep == (source.fps100 * interval + 50) \div 100

\* Run r has gone through its frame loop to the end.
LoopFinished(r) == exported[r].result # "pending"

\* C21: the sampled frame indices of a run are exactly k * round(fps * I) for
\* k = 0, 1, 2, ... while the index is below the frame count, also for a
\* frame rate that is not a whole number.
C21_SamplesAtRoundedStep ==
    \A r \in Runs :
        rpc[r] \in {"loop", "returned"} =>
            /\ \A k \in 1..Len(visited[r]) : visited[r][k] = (k - 1) * RoundedStep
            /\ LoopFinished(r) =>
                   \A k \in 0..source.total_frames :
                       (k * RoundedStep < source.total_frames)
                           => k * RoundedStep \in Range(visited[r])

\* The sample points of range(0, total_frames, frame_interval).
SamplePoints ==
    {n \in 0..(source.total_frames - 1) : n % FrameInterval(source, interval) = 0}

\* C22: a sample whose frame fails to decode is skipped: it creates no slide,
\* is not compared and leaves the comparison reference alone, the slide
\* numbers stay contiguous, and when the loop is over every sample point in
\* range has been read.
C22_UndecodedSampleSkipped ==
    \A r \in Runs :
        /\ \A k \in 1..Len(visited[r]) :
               source.frames[visited[r][k] + 1] = NoFrame =>
                   /\ visited[r][k] \notin SlidePoints(r)
                   /\ visited[r][k] \notin compared[r]
        /\ prev_frame[r] =
               IF extracted_slides[r] = << >> THEN None
               ELSE source.frames[Last(extracted_slides[r]).frame_num + 1]
        /\ \A k \in 1..Len(extracted_slides[r]) : extracted_slides[r][k].count = k - 1
        /\ LoopFinished(r) => Range(visited[r]) = SamplePoints

\* C22 witness: a slide, then a sample that failed to decode, then a later
\* sample that was compared and became the next slide.
C22_SlideAfterSkippedSampleWitness ==
    \E r \in Runs :
        /\ LoopFinished(r)
        /\ Len(visited[r]) = 3
        /\ source.frames[visited[r][2] + 1] = NoFrame
        /\ SlidePoints(r) = {visited[r][1], visited[r][3]}
        /\ visited[r][3] \in compared[r]

\* C29: for an opened video with fps > 0 and an interval >= 1 the run never
\* ends with an exception: the step of the frame loop is at least 1, also
\* when fps * interval < 1.
C29_PositiveFpsNeverRaises ==
    \A r \in Runs :
        (source.opens /\ source.fps100 > 0 /\ interval >= 1) =>
            /\ rpc[r] # "raised"
            /\ rpc[r] \in {"loop", "returned"} => FrameInterval(source, interval) >= 1

\* The recognized texts _extract_and_store_text keeps for the slides of run r.
TextsOfSlides(r) ==
    {[slide |-> extracted_slides[r][k].count,
      text |-> ExtractText(lib, source.frames[extracted_slides[r][k].frame_num + 1])] :
        k \in {h \in 1..Len(extracted_slides[r]) :
                  ExtractText(lib, source.frames[extracted_slides[r][h].frame_num + 1]) # << >>}}

\* C30: two finished runs over the same video with the same interval and
\* threshold accept the same sample points with the same numbers and
\* filenames whatever their extract_text flags; the flag only decides whether
\* the non-empty recognized texts of the slides are kept.
C30_ExtractTextLeavesSlidesAlone ==
    (/\ rpc[1] = "returned" /\ rpc[2] = "returned"
     /\ cfg[1].threshold = cfg[2].threshold)
        => /\ extracted_slides[1] = extracted_slides[2]
           /\ \A r \in Runs :
                  extracted_text[r] = IF cfg[r].extract_text THEN TextsOfSlides(r) ELSE {}

\* C30 witness: the run with text extraction kept a text, the run without
\* kept none, and both accepted the same two slides.
C30_TextKeptSameSlidesWitness ==
    /\ rpc[1] = "returned" /\ rpc[2] = "returned"
    /\ cfg[1].threshold = cfg[2].threshold
    /\ ~cfg[1].extract_text /\ cfg[2].extract_text
    /\ Len(extracted_slides[2]) >= 2
    /\ extracted_text[2] # {}
    /\ extracted_text[1] = {}

----------------------------------------------------------------------------
(* Claims about the order of the compared frames (SpecCompare).            *)

\* len(common_words) / max(len(words1), len(words2)) of line 256, as the pair
\* of its numerator and denominator.
CommonOverLongest(words1, words2) ==
    <<Cardinality(words1 \cap words2), Max(Cardinality(words1), Cardinality(words2))>>

\* C24: the text comparison gives the same ratio and the same answer when the
\* two frames are swapped: with the first two signals silent, the verdict of
\* the call equals the text signal of the frames taken in the other order.
C24_TextSignalSymmetric ==
    (cpc = "returned" /\ ~Signal1 /\ ~Signal2) =>
        /\ verdict = TextSignal(ExtractText(lib, cmp_frames[2]), ExtractText(lib, cmp_frames[1]))
        /\ CommonOverLongest(Words1, Words2) = CommonOverLongest(Words2, Words1)

\* C24 witness: a call decided by the text signal alone, on frames whose
\* word sets have different sizes.
C24_UnequalWordSetsWitness ==
    /\ cpc = "returned"
    /\ ~Signal1 /\ ~Signal2
    /\ BothOverMinWords
    /\ Cardinality(Words1) < Cardinality(Words2)
    /\ CommonWords = Cardinality(Words1)
    /\ verdict

----------------------------------------------------------------------------
(* Claims about the order of the status updates of a parallel batch (Spec). *)

\* C28: in parallel mode a job's 'Starting extraction' (and so its
\* 'Extraction complete') is never handed to the status callback while the
\* coordinator has not yet handed over that job's 'Added to processing
\* queue'.
C28_AddedDeliveredFirst ==
    parallel =>
        \A j \in Jobs : (pc = "added" /\ i = j) => tpc[j] = "starting"

----------------------------------------------------------------------------
(* Claims about the panels of the slideshow (SpecExport).                  *)

\* C27: in the loaded slideshow of n >= 1 panels exactly one panel is
\* visible, the current index is within 1..n, the displayed number is the
\* number of the visible panel, and before any navigation the visible panel
\* is the first.
C27_OnePanelVisible ==
    page \in {"loaded", "open"} =>
        /\ Len(extracted_slides[1]) >= 1
        /\ Cardinality(active) = 1
        /\ active = {currentSlide}
        /\ currentSlide \in 1..Len(extracted_slides[1])
        /\ page = "open" => (/\ totalSlides = Len(extracted_slides[1])
                              /\ currentSlideIndex = currentSlide)
        /\ last_input.control = "none" => active = {1}

\* C27 witness: ArrowRight on the last of several panels has shown the first.
C27_WrappedToFirstWitness ==
    /\ page = "open"
    /\ totalSlides >= 2
    /\ last_input = [control |-> "ArrowRight", from |-> totalSlides]
    /\ active = {1}
    /\ currentSlide = 1

----------------------------------------------------------------------------
(* Claims about the progress of a parallel batch (SpecLive).               *)

\* C25: in parallel mode every submitted job is eventually started and
\* batch_process eventually returns: the admission wait loop does not block
\* forever.
C25_ParallelBatchReturns ==
    parallel ~> (pc = "returned" /\ \A j \in Jobs : Started(j))

\* C25 witness: a parallel batch with more jobs than workers has gone through
\* the wait loop and returned.
C25_MoreJobsThanWorkersWitness ==
    /\ parallel
    /\ Len(urls) > max_workers
    /\ pc = "returned"
    /\ \A j \in Jobs : Terminal(j)

----------------------------------------------------------------------------
(* Claims about the temporary video of runs that share a directory         *)
(* (SpecReuse).                                                            *)

\* C26: every run reads frames only from the video of its own url, also when
\* it follows a run for another url that ended after the temporary video
\* file was created.
C26_SamplesOwnVideo ==
    \A r \in Runs : sampled_from[r] \subseteq {video_url[r]}

----------------------------------------------------------------------------
(* Claims about the names of the slide images (SpecNames).                 *)

\* C23: the filenames of two slides of one job sort like their sequence
\* numbers, for every slide count and timestamp, so that the sorted
\* directory listing has the slides in the order they were saved in.
C23_NamesSortInSlideOrder ==
    /\ \A a, b \in 1..Len(saved) : a < b => StrLess(saved[a], saved[b])
    /\ fpc = "listed" => listing = saved

====
